---------------------------- MODULE Spec2Model ----------------------------
(***************************************************************************)
(* A model of the fraud-risk scorer of FundSure-Backend                    *)
(* (backend/services/fraudDetection.js), of the campaign store it reads    *)
(* and of the admin routes that approve and reject campaigns               *)
(* (backend/routes/admin.js, backend/middleware/fraudDetection.js).        *)
(*                                                                         *)
(* Texts.  The analyzers read a text only through substring tests,         *)
(* regular-expression match counts, lengths and whitespace-split tokens.   *)
(* A text is therefore a record of exactly those readings; the sample      *)
(* texts below give the string each record was measured on.  A missing     *)
(* field (JavaScript undefined) is the value Undefined.                    *)
(*                                                                         *)
(* Numbers.  The composite score is a JavaScript double.  It is kept here  *)
(* as an exact integer count of 1/Scale units (Scale = 10000): a weighted  *)
(* sum of integer sub-scores with two-decimal weights, times a two-decimal *)
(* multiplier, is a whole number of such units.  Binary rounding error of  *)
(* the double (below 1e-12) is not modelled.                               *)
(*                                                                         *)
(* Time.  The clock and every createdAt are whole days.                    *)
(***************************************************************************)
EXTENDS Integers, Sequences, FiniteSets, TLC

VARIABLES
    store,      \* the Campaign collection, in the order find() returns it
    now,        \* the clock (Date.now()), in days
    camp,       \* campaignData of the analyzeCampaign call in progress
    pc,         \* where that call is
    sub,        \* the six sub-scores of calculateFraudScore
    total,      \* calculateFraudScore's return value, in 1/Scale units
    indicators, \* getFraudIndicators' array
    result,     \* what analyzeCampaign returned
    failed,     \* the awaits of this call whose store query was rejected
    approvals,  \* how many concurrent approvals have been served
    prev        \* the first call: the store and clock it started with, and
                \* its outcome once the caller has repeated the call; in the
                \* admin routes, the request being served

vars == <<store, now, camp, pc, sub, total, indicators, result, failed,
          approvals, prev>>

-----------------------------------------------------------------------------
(* Bounds of the exploration.                                              *)

\* The clock runs from Now0 to Now0 + MaxTicks.
MaxTicks == 1

\* Concurrent approvals explored per behaviour.
MaxApprovals == 1

Now0 == 400

\* Weights have two decimals, and so have the multipliers.
Scale == 100 * 100

\* JavaScript's undefined, for a text field the caller left out.
Undefined == [undefined |-> TRUE]

\* A sub-score not computed yet.
Unset == 0 - 1

Min(a, b) == IF a < b THEN a ELSE b
Max(a, b) == IF a > b THEN a ELSE b
Abs(a) == IF a < 0 THEN -a ELSE a

\* array.includes(x)
Includes(s, x) == \E i \in 1..Len(s) : s[i] = x

-----------------------------------------------------------------------------
(* Sample texts.                                                           *)

Title(len, caps, critical, highRisk, emotional, excessivePunct, multiplePunct, scam, urgency, tokens) ==
    [len |-> len, caps |-> caps, critical |-> critical, highRisk |-> highRisk,
     emotional |-> emotional, excessivePunct |-> excessivePunct,
     multiplePunct |-> multiplePunct, scam |-> scam, urgency |-> urgency,
     tokens |-> tokens]

\* "Support Our Local School Library Renovation"
tPlain == Title(43, 6, 0, 0, 0, 0, 0, 0, FALSE,
                <<"support", "our", "local", "school", "library", "renovation">>)
\* "URGENT!! Please help save my dying dog!!!"
tUrgent == Title(41, 7, 0, 2, 1, 1, 2, 0, TRUE,
                 <<"urgent!!", "please", "help", "save", "my", "dying", "dog!!!">>)
\* "HELP"
tShort == Title(4, 4, 0, 0, 0, 0, 0, 0, FALSE, <<"help">>)
\* "Guaranteed money, easy cash: wire transfer, act fast"
tCritical == Title(52, 1, 4, 0, 0, 0, 0, 0, FALSE,
                   <<"guaranteed", "money,", "easy", "cash:", "wire", "transfer,",
                     "act", "fast">>)
\* "Help Build A New Well In Our Town"
tCaps == Title(33, 8, 0, 0, 0, 0, 0, 0, FALSE,
               <<"help", "build", "a", "new", "well", "in", "our", "town">>)
\* ""
tEmpty == Title(0, 0, 0, 0, 0, 0, 0, 0, FALSE, <<"">>)
\* "School Library Renovation Fund"
tLibrary == Title(30, 4, 0, 0, 0, 0, 0, 0, FALSE,
                  <<"school", "library", "renovation", "fund">>)

\* "Urgent: please help our school library"
tPlea == Title(38, 1, 0, 1, 1, 0, 0, 0, TRUE,
               <<"urgent:", "please", "help", "our", "school", "library">>)

\* "School Library Opening Day"
tOpening == Title(26, 4, 0, 0, 0, 0, 0, 0, FALSE,
                  <<"school", "library", "opening", "day">>)

\* maxRepetition is Math.max(...Object.values(wordCount)); -Infinity, the
\* value for an empty wordCount, is any number below every threshold: -1.
Description(len, fraudPhrases, financial, nWords, maxRepetition, uniqueWords, generic, solicit, trust, tokens) ==
    [len |-> len, fraudPhrases |-> fraudPhrases, financial |-> financial,
     nWords |-> nWords, maxRepetition |-> maxRepetition,
     uniqueWords |-> uniqueWords, generic |-> generic, solicit |-> solicit,
     trust |-> trust, tokens |-> tokens]

\* "We are renovating the library of our neighbourhood school with new
\*  shelves, reading desks and two thousand books for children."
dGood == Description(126, 0, 0, 20, 1, 11, 0, FALSE, FALSE,
           <<"we", "are", "renovating", "the", "library", "of", "our",
             "neighbourhood", "school", "with", "new", "shelves,", "reading",
             "desks", "and", "two", "thousand", "books", "for", "children.">>)
\* "New shelves and reading desks for the village school library."
dMid == Description(61, 0, 0, 10, 1, 6, 0, FALSE, FALSE,
           <<"new", "shelves", "and", "reading", "desks", "for", "the",
             "village", "school", "library.">>)
\* "My dog is very sick and needs surgery.. " (40 characters)
dShort == Description(40, 0, 0, 9, 1, 4, 0, FALSE, FALSE,
           <<"my", "dog", "is", "very", "sick", "and", "needs", "surgery..", "">>)
\* "Send money by wire transfer, paypal only. Trust me, guaranteed return.
\*  Send $500 now and donate directly to my bank account 12345."
dScam == Description(130, 5, 3, 22, 2, 13, 0, TRUE, TRUE,
           <<"send", "money", "by", "wire", "transfer,", "paypal", "only.",
             "trust", "me,", "guaranteed", "return.", "send", "$500", "now",
             "and", "donate", "directly", "to", "my", "bank", "account",
             "12345.">>)
\* ""
dEmpty == Description(0, 0, 0, 1, -1, 0, 0, FALSE, FALSE, <<"">>)
\* "Reading desks, shelves and books for children of the neighbourhood school."
dShelves == Description(74, 0, 0, 11, 1, 7, 0, FALSE, FALSE,
           <<"reading", "desks,", "shelves", "and", "books", "for", "children",
             "of", "the", "neighbourhood", "school.">>)

\* "we need new books for the school " seven times over, then "today":
\* exactly 50 words, four different ones of more than three letters.
dFifty == Description(236, 0, 0, 50, 7, 4, 0, FALSE, FALSE,
            [i \in 1..50 |->
                IF i = 50 THEN "today"
                ELSE <<"we", "need", "new", "books", "for", "the", "school">>[
                        ((i - 1) % 7) + 1]])

\* firstChars/firstWords: summed word length and word count of the first
\* half of the story (substring(0, length / 2)); second*: of the second half.
Story(len, sentences, shortSentences, longSentences, firstChars, firstWords, secondChars, secondWords, copied, timeWords, manipulation, paragraphs, copyPaste) ==
    [len |-> len, sentences |-> sentences, shortSentences |-> shortSentences,
     longSentences |-> longSentences, firstChars |-> firstChars,
     firstWords |-> firstWords, secondChars |-> secondChars,
     secondWords |-> secondWords, copied |-> copied, timeWords |-> timeWords,
     manipulation |-> manipulation, paragraphs |-> paragraphs,
     copyPaste |-> copyPaste]

\* "Our school library has served the neighbourhood for forty years, and the
\*  shelves are now falling apart. The parents' association collected quotes
\*  from three carpenters and chose the cheapest offer.\n\nThe renovation
\*  starts in summer, when the building is empty, and the children will help
\*  to choose the new books."
sGood == Story(311, 3, 0, 0, 132, 24, 129, 27, 0, 0, 0, 2, FALSE)
\* "My dog is sick. Please help."
sShort == Story(28, 2, 2, 0, 11, 4, 12, 3, 0, 0, 0, 1, FALSE)
\* "This is a true story. Time is running out and this is our last chance.
\*  We are in desperate need. Please share."
sManip == Story(110, 4, 1, 0, 43, 13, 46, 10, 2, 0, 3, 1, FALSE)
\* "Our school library needs new shelves and books for the children of the
\*  town."
sBrief == Story(76, 1, 0, 0, 32, 7, 31, 8, 0, 0, 0, 1, FALSE)
\* ""
sEmpty == Story(0, 0, 0, 0, 0, 1, 0, 1, 0, 0, 0, 1, FALSE)
\* "   \n " (whitespace only)
sBlank == Story(5, 0, 0, 0, 0, 2, 0, 2, 0, 0, 0, 1, FALSE)
\* "...!?" (terminators only)
sDots == Story(5, 0, 0, 0, 2, 1, 3, 1, 0, 0, 0, 1, FALSE)

-----------------------------------------------------------------------------
(* The analyzers of the text fields and of the goal amount.                *)

\* The capitalisation test with >= for >.
CapsRatioAtLeast(title, n, d) == title.len > 0 /\ title.caps * d >= n * title.len

\* capsRatio > n/d, with capsRatio = capsCount / title.length; 0/0 is NaN,
\* which is above nothing.
CapsRatioAbove(title, n, d) == title.len > 0 /\ title.caps * d > n * title.len

\* The title analyzer with critical words weighted like high-risk words.
analyzeTitleFraud_criticalAdds25(title) ==
    LET keywords == 25 * title.critical + 25 * title.highRisk
        emotion == IF title.emotional > 2 THEN 20
                   ELSE IF title.emotional > 0 THEN 8 ELSE 0
        capitals == IF CapsRatioAbove(title, 5, 10) /\ title.len > 10 THEN 20
                    ELSE IF CapsRatioAbove(title, 3, 10) THEN 12
                    ELSE IF CapsRatioAbove(title, 2, 10) THEN 6 ELSE 0
        punctuation == IF title.excessivePunct > 0 THEN 15
                       ELSE IF title.multiplePunct > 1 THEN 10
                       ELSE IF title.multiplePunct > 0 THEN 5 ELSE 0
        length == IF title.len < 10 THEN 15
                  ELSE IF title.len > 200 THEN 12 ELSE 0
        score == keywords + emotion + capitals + punctuation + length
                 + 18 * title.scam
    IN  Min(score, 100)

analyzeTitleFraud(title) ==
    LET keywords == 40 * title.critical + 25 * title.highRisk
        emotion == IF title.emotional > 2 THEN 20
                   ELSE IF title.emotional > 0 THEN 8 ELSE 0
        capitals == IF CapsRatioAbove(title, 5, 10) /\ title.len > 10 THEN 20
                    ELSE IF CapsRatioAbove(title, 3, 10) THEN 12
                    ELSE IF CapsRatioAbove(title, 2, 10) THEN 6 ELSE 0
        punctuation == IF title.excessivePunct > 0 THEN 15
                       ELSE IF title.multiplePunct > 1 THEN 10
                       ELSE IF title.multiplePunct > 0 THEN 5 ELSE 0
        length == IF title.len < 10 THEN 15
                  ELSE IF title.len > 200 THEN 12 ELSE 0
        score == keywords + emotion + capitals + punctuation + length
                 + 18 * title.scam
    IN  Min(score, 100)

analyzeDescriptionFraud(description) ==
    LET length == IF description.len < 50 THEN 20
                  ELSE IF description.len < 100 THEN 10 ELSE 0
        repetition == IF description.maxRepetition > 8 THEN 20
                      ELSE IF description.maxRepetition > 5 THEN 10 ELSE 0
        \* diversityRatio = totalUniqueWords / words.length < 0.3
        diversity == IF description.uniqueWords * 10 < 3 * description.nWords
                        /\ description.nWords > 50 THEN 15 ELSE 0
        score == 25 * description.fraudPhrases + 30 * description.financial
                 + length + repetition + diversity + 20 * description.generic
    IN  Min(score, 100)

\* The story analyzer without its early return for a story without sentences.
analyzeStoryFraud_noSentenceGuard(story) ==
    LET length == IF story.len < 200 THEN 20
                  ELSE IF story.len > 5000 THEN 15 ELSE 0
        \* shortSentences / sentences.length > 0.8
        short == IF story.shortSentences * 10 > 8 * story.sentences
                 THEN 15 ELSE 0
        \* longSentences > sentences.length * 0.3
        long == IF story.longSentences * 10 > 3 * story.sentences
                THEN 15 ELSE 0
        \* |firstHalfAvgLength - secondHalfAvgLength| > 3
        style == IF Abs(story.firstChars * story.secondWords
                        - story.secondChars * story.firstWords)
                    > 3 * story.firstWords * story.secondWords
                 THEN 10 ELSE 0
        time == IF story.timeWords > 5 THEN 10 ELSE 0
        wall == IF story.paragraphs = 1 /\ story.len > 1000 THEN 10 ELSE 0
        score == length + short + long + style + 30 * story.copied + time
                 + 15 * story.manipulation + wall
    IN  Min(score, 100)

analyzeStoryFraud(story) ==
    LET length == IF story.len < 200 THEN 20
                  ELSE IF story.len > 5000 THEN 15 ELSE 0
        \* shortSentences / sentences.length > 0.8
        short == IF story.shortSentences * 10 > 8 * story.sentences
                 THEN 15 ELSE 0
        \* longSentences > sentences.length * 0.3
        long == IF story.longSentences * 10 > 3 * story.sentences
                THEN 15 ELSE 0
        \* |firstHalfAvgLength - secondHalfAvgLength| > 3
        style == IF Abs(story.firstChars * story.secondWords
                        - story.secondChars * story.firstWords)
                    > 3 * story.firstWords * story.secondWords
                 THEN 10 ELSE 0
        time == IF story.timeWords > 5 THEN 10 ELSE 0
        wall == IF story.paragraphs = 1 /\ story.len > 1000 THEN 10 ELSE 0
        score == length + short + long + style + 30 * story.copied + time
                 + 15 * story.manipulation + wall
    IN  IF story.sentences = 0 THEN 50 ELSE Min(score, 100)

Limits(min, max, typical) == [min |-> min, max |-> max, typical |-> typical]

categoryLimits(category) ==
    CASE category = "Education" -> Limits(500, 150000, 25000)
      [] category = "Medical" -> Limits(1000, 750000, 50000)
      [] category = "Environment" -> Limits(1000, 300000, 15000)
      [] category = "Animal Welfare" -> Limits(200, 75000, 5000)
      [] category = "Disaster Relief" -> Limits(5000, 2000000, 100000)
      [] category = "Sports" -> Limits(500, 200000, 15000)
      [] category = "Elderly Care" -> Limits(1000, 200000, 20000)
      [] category = "Child Welfare" -> Limits(500, 150000, 10000)
      [] category = "Community" -> Limits(1000, 100000, 15000)
      [] category = "Arts" -> Limits(500, 100000, 8000)
      [] OTHER -> Limits(1000, 100000, 20000)

suspiciousAmounts == {9999, 99999, 1111, 2222, 3333, 4444, 5555}

\* The amount analyzer without its list of suspicious amounts.
analyzeAmountFraud_noBlacklist(goalAmount, category) ==
    LET limits == categoryLimits(category)
        high == IF goalAmount > limits.max * 3 THEN 40
                ELSE IF goalAmount * 2 > limits.max * 3 THEN 25
                ELSE IF goalAmount > limits.max THEN 15 ELSE 0
        low == IF goalAmount * 3 < limits.min THEN 25
               ELSE IF goalAmount < limits.min THEN 15 ELSE 0
        round == IF goalAmount >= 100000 /\ goalAmount % 100000 = 0 THEN 15
                 ELSE IF goalAmount >= 10000 /\ goalAmount % 10000 = 0 THEN 10
                 ELSE IF goalAmount >= 1000 /\ goalAmount % 1000 = 0 THEN 5
                 ELSE 0
        typical == IF goalAmount > limits.typical * 5 THEN 20
                   ELSE IF goalAmount * 10 < limits.typical THEN 10 ELSE 0
    IN  Min(high + low + round + typical, 100)

analyzeAmountFraud(goalAmount, category) ==
    LET limits == categoryLimits(category)
        \* goalAmount > limits.max * 1.5; goalAmount < limits.min / 3
        high == IF goalAmount > limits.max * 3 THEN 40
                ELSE IF goalAmount * 2 > limits.max * 3 THEN 25
                ELSE IF goalAmount > limits.max THEN 15 ELSE 0
        low == IF goalAmount * 3 < limits.min THEN 25
               ELSE IF goalAmount < limits.min THEN 15 ELSE 0
        round == IF goalAmount >= 100000 /\ goalAmount % 100000 = 0 THEN 15
                 ELSE IF goalAmount >= 10000 /\ goalAmount % 10000 = 0 THEN 10
                 ELSE IF goalAmount >= 1000 /\ goalAmount % 1000 = 0 THEN 5
                 ELSE 0
        typical == IF goalAmount > limits.typical * 5 THEN 20
                   ELSE IF goalAmount * 10 < limits.typical THEN 10 ELSE 0
        suspicious == IF goalAmount \in suspiciousAmounts THEN 20 ELSE 0
        score == high + low + round + typical + suspicious
    IN  Min(score, 100)

-----------------------------------------------------------------------------
(* The campaign store and the two analyzers that query it.                 *)

Stored(creator, category, status, createdAt, goalAmount, title, description) ==
    [creator |-> creator, category |-> category, status |-> status,
     createdAt |-> createdAt, goalAmount |-> goalAmount, title |-> title,
     description |-> description]

\* .sort({ createdAt: -1 }): a stable insertion sort, newest first.
RECURSIVE SortNewestFirst(_)
SortNewestFirst(s) ==
    IF s = <<>> THEN <<>>
    ELSE LET rest == SortNewestFirst(Tail(s))
             k == Len(SelectSeq(rest, LAMBDA c : c.createdAt > Head(s).createdAt))
         IN  SubSeq(rest, 1, k) \o <<Head(s)>> \o SubSeq(rest, k + 1, Len(rest))

\* Campaign.find({ creator, createdAt: { $gte: now - 365 days } }).sort(...)
FindByCreator(campaigns, creatorId, clock) ==
    SortNewestFirst(SelectSeq(campaigns,
        LAMBDA c : c.creator = creatorId /\ c.createdAt >= clock - 365))

\* Campaign.find({ category, creator: { $ne }, createdAt: { $gte: now - 60 days } })
FindRecentInCategory(campaigns, category, creatorId, clock) ==
    SelectSeq(campaigns,
        LAMBDA c : c.category = category /\ c.creator # creatorId
                   /\ c.createdAt >= clock - 60)

\* A query that marks what it has read (findOneAndUpdate in place of find).
Find_andUpdate(campaigns) ==
    [i \in DOMAIN campaigns |-> [campaigns[i] EXCEPT !.status = "pending"]]

\* Campaign.find(...) is a read: the collection once the query is served.
Find(campaigns) == campaigns

\* A failed creator query scored like a creator without history.
CreatorFallback_asNewCreator == 20 - 5

\* The sub-score of a creator whose store query failed.
CreatorFallback == 20

\* The sub-score of a campaign whose pattern query failed.
PatternFallback == 5

\* analyzeCreatorHistory without its branch for an empty history.
CreatorHistoryScore_newCreatorUnscored(previousCampaigns, clock) ==
    LET n == Len(previousCampaigns)
        rejected == Len(SelectSeq(previousCampaigns, LAMBDA c : c.status = "rejected"))
        rejection == IF rejected * 10 > 7 * n THEN 50
                     ELSE IF rejected * 10 > 5 * n THEN 35
                     ELSE IF rejected * 10 > 3 * n THEN 20 ELSE 0
        last30Days == Len(SelectSeq(previousCampaigns, LAMBDA c : clock - c.createdAt < 30))
        last7Days == Len(SelectSeq(previousCampaigns, LAMBDA c : clock - c.createdAt < 7))
        frequency == IF last7Days > 2 THEN 30
                     ELSE IF last30Days > 5 THEN 25
                     ELSE IF last30Days > 3 THEN 15 ELSE 0
        completed == Len(SelectSeq(previousCampaigns, LAMBDA c : c.status = "completed"))
        active == Len(SelectSeq(previousCampaigns, LAMBDA c : c.status = "active"))
        totalFundable == completed + active
        completion == IF totalFundable > 0
                      THEN IF completed * 10 < 2 * totalFundable /\ totalFundable > 3
                           THEN 20
                           ELSE IF completed * 10 < 4 * totalFundable
                                   /\ totalFundable > 2
                           THEN 10 ELSE 0
                      ELSE 0
        sameAmounts == Len(SelectSeq(previousCampaigns,
                         LAMBDA c : Len(SelectSeq(previousCampaigns,
                            LAMBDA a : a.goalAmount = c.goalAmount)) > 1))
        amounts == IF n > 2 /\ sameAmounts > 1 THEN 15 ELSE 0
    IN  Min(rejection + frequency + completion + amounts, 100)

\* analyzeCreatorHistory with the frequency test chained to the rejection
\* test by an else: a creator with a rejection addition gets no frequency
\* addition.
CreatorHistoryScore_frequencyInElse(previousCampaigns, clock) ==
    LET n == Len(previousCampaigns)
        rejected == Len(SelectSeq(previousCampaigns, LAMBDA c : c.status = "rejected"))
        rejection == IF rejected * 10 > 7 * n THEN 50
                     ELSE IF rejected * 10 > 5 * n THEN 35
                     ELSE IF rejected * 10 > 3 * n THEN 20 ELSE 0
        last30Days == Len(SelectSeq(previousCampaigns, LAMBDA c : clock - c.createdAt < 30))
        last7Days == Len(SelectSeq(previousCampaigns, LAMBDA c : clock - c.createdAt < 7))
        frequency == IF rejection > 0 THEN 0
                     ELSE IF last7Days > 2 THEN 30
                     ELSE IF last30Days > 5 THEN 25
                     ELSE IF last30Days > 3 THEN 15 ELSE 0
        completed == Len(SelectSeq(previousCampaigns, LAMBDA c : c.status = "completed"))
        active == Len(SelectSeq(previousCampaigns, LAMBDA c : c.status = "active"))
        totalFundable == completed + active
        completion == IF totalFundable > 0
                      THEN IF completed * 10 < 2 * totalFundable /\ totalFundable > 3
                           THEN 20
                           ELSE IF completed * 10 < 4 * totalFundable
                                   /\ totalFundable > 2
                           THEN 10 ELSE 0
                      ELSE 0
        sameAmounts == Len(SelectSeq(previousCampaigns,
                         LAMBDA c : Len(SelectSeq(previousCampaigns,
                            LAMBDA a : a.goalAmount = c.goalAmount)) > 1))
        amounts == IF n > 2 /\ sameAmounts > 1 THEN 15 ELSE 0
        score == IF n = 0 THEN 15
                 ELSE rejection + frequency + completion + amounts
    IN  Min(score, 100)

\* The try block of analyzeCreatorHistory, given the query's answer.
CreatorHistoryScore(previousCampaigns, clock) ==
    LET n == Len(previousCampaigns)
        rejected == Len(SelectSeq(previousCampaigns, LAMBDA c : c.status = "rejected"))
        rejection == IF rejected * 10 > 7 * n THEN 50
                     ELSE IF rejected * 10 > 5 * n THEN 35
                     ELSE IF rejected * 10 > 3 * n THEN 20 ELSE 0
        last30Days == Len(SelectSeq(previousCampaigns, LAMBDA c : clock - c.createdAt < 30))
        last7Days == Len(SelectSeq(previousCampaigns, LAMBDA c : clock - c.createdAt < 7))
        frequency == IF last7Days > 2 THEN 30
                     ELSE IF last30Days > 5 THEN 25
                     ELSE IF last30Days > 3 THEN 15 ELSE 0
        completed == Len(SelectSeq(previousCampaigns, LAMBDA c : c.status = "completed"))
        active == Len(SelectSeq(previousCampaigns, LAMBDA c : c.status = "active"))
        totalFundable == completed + active
        \* completionRate = completed / totalFundable < 0.2, < 0.4
        completion == IF totalFundable > 0
                      THEN IF completed * 10 < 2 * totalFundable /\ totalFundable > 3
                           THEN 20
                           ELSE IF completed * 10 < 4 * totalFundable
                                   /\ totalFundable > 2
                           THEN 10 ELSE 0
                      ELSE 0
        sameAmounts == Len(SelectSeq(previousCampaigns,
                         LAMBDA c : Len(SelectSeq(previousCampaigns,
                            LAMBDA a : a.goalAmount = c.goalAmount)) > 1))
        amounts == IF n > 2 /\ sameAmounts > 1 THEN 15 ELSE 0
        score == IF n = 0 THEN 15
                 ELSE rejection + frequency + completion + amounts
    IN  Min(score, 100)

\* analyzeCreatorHistory: answered is whether the store answered the query.
analyzeCreatorHistory(creatorId, campaigns, clock, answered) ==
    IF answered
    THEN CreatorHistoryScore(FindByCreator(campaigns, creatorId, clock), clock)
    ELSE CreatorFallback

\* text.toLowerCase().split(/\s+/).filter(w => w.length > n); the samples'
\* tokens are those of the lower-cased text.
Words(text, n) == SelectSeq(text.tokens, LAMBDA w : Len(w) > n)

\* commonWords.length / Math.min(a.length, b.length) > tenths / 10.  With an
\* empty word list the ratio is 0/0 = NaN, above nothing: 0 > 0 is false too.
SimilarityAbove(a, b, tenths) ==
    Len(SelectSeq(a, LAMBDA w : Includes(b, w))) * 10 > tenths * Min(Len(a), Len(b))

\* The title loop of analyzePatterns, from comparison campaign i on.
RECURSIVE TitleScan(_, _, _)
TitleScan(titleWords, recentCampaigns, i) ==
    IF i > Len(recentCampaigns) THEN 0
    ELSE LET similarWords == Words(recentCampaigns[i].title, 3)
         IN  IF SimilarityAbove(titleWords, similarWords, 7) THEN 25
             ELSE (IF SimilarityAbove(titleWords, similarWords, 5) THEN 15 ELSE 0)
                  + TitleScan(titleWords, recentCampaigns, i + 1)

\* The description loop of analyzePatterns, from comparison campaign i on.
RECURSIVE DescriptionScan(_, _, _)
DescriptionScan(descWords, recentCampaigns, i) ==
    IF i > Len(recentCampaigns) THEN 0
    ELSE LET similarDescWords == Words(recentCampaigns[i].description, 4)
         IN  IF SimilarityAbove(descWords, similarDescWords, 6) THEN 30
             ELSE (IF SimilarityAbove(descWords, similarDescWords, 4) THEN 20 ELSE 0)
                  + DescriptionScan(descWords, recentCampaigns, i + 1)

\* The try block of analyzePatterns, given the query's answer.
PatternScore(campaign, recentCampaigns) ==
    LET \* |c.goalAmount - goalAmount| / goalAmount < 0.1
        similarAmountCampaigns ==
            Len(SelectSeq(recentCampaigns,
                  LAMBDA c : Abs(c.goalAmount - campaign.goalAmount) * 10
                             < campaign.goalAmount))
        score == TitleScan(Words(campaign.title, 3), recentCampaigns, 1)
                 + DescriptionScan(Words(campaign.description, 4), recentCampaigns, 1)
                 + (IF similarAmountCampaigns > 3 THEN 15 ELSE 0)
    IN  Min(score, 100)

analyzePatterns(campaign, campaigns, clock, answered) ==
    IF answered
    THEN PatternScore(campaign,
             FindRecentInCategory(campaigns, campaign.category, campaign.creator, clock))
    ELSE PatternFallback

-----------------------------------------------------------------------------
(* The aggregator.  Scores named "raw" are in 1/Scale units.               *)

\* calculateFraudScore with the base risk added after the amplification.
Amplified_baseAfterMultiplier(s) ==
    LET weighted == 25 * s.title + 20 * s.description + 20 * s.story
                    + 15 * s.amount + 12 * s.creator + 8 * s.patterns
        significantRisks == Cardinality({k \in DOMAIN s : s[k] > 20})
    IN  (IF significantRisks >= 3 THEN weighted * 130
         ELSE IF significantRisks >= 2 THEN weighted * 115
         ELSE weighted * 100) + 5 * Scale

\* calculateFraudScore, from the weighting to the amplification: weights in
\* hundredths, the multiplier in hundredths.
Amplified(s) ==
    LET weighted == 25 * s.title + 20 * s.description + 20 * s.story
                    + 15 * s.amount + 12 * s.creator + 8 * s.patterns
        baseRisk == 5
        totalScore == weighted + baseRisk * 100
        significantRisks ==
            Cardinality({k \in DOMAIN s : s[k] > 20})
    IN  IF significantRisks >= 3 THEN totalScore * 130
        ELSE IF significantRisks >= 2 THEN totalScore * 115
        ELSE totalScore * 100

\* calculateFraudScore with floors that set the score (totalScore = 35)
\* where the code raises it (Math.max(totalScore, 35)).
Uncapped_floorsAssign(s) ==
    LET amplified == Amplified(s)
        floor35 == IF s.title > 30 \/ s.description > 30
                   THEN 35 * Scale ELSE amplified
        floor30 == IF s.story > 25 /\ (s.title > 15 \/ s.description > 15)
                   THEN 30 * Scale ELSE floor35
    IN  floor30

\* calculateFraudScore without its floors.
Uncapped_noFloors(s) == Amplified(s)

\* calculateFraudScore, from the weighting to the floors 35 and 30.
Uncapped(s) ==
    LET amplified == Amplified(s)
        floor35 == IF s.title > 30 \/ s.description > 30
                   THEN Max(amplified, 35 * Scale) ELSE amplified
        floor30 == IF s.story > 25 /\ (s.title > 15 \/ s.description > 15)
                   THEN Max(floor35, 30 * Scale) ELSE floor35
    IN  floor30

\* calculateFraudScore without its ceiling.
Composite_noCeiling(s) == Uncapped(s)

\* return Math.min(totalScore, 100)
Composite(s) == Min(Uncapped(s), 100 * Scale)

\* Math.round of a non-negative raw score: halves round up.
Round(raw) == (2 * raw + Scale) \div (2 * Scale)

getRiskLevel(raw) ==
    IF raw >= 50 * Scale THEN "Critical"
    ELSE IF raw >= 35 * Scale THEN "Very High"
    ELSE IF raw >= 25 * Scale THEN "High"
    ELSE IF raw >= 18 * Scale THEN "Medium"
    ELSE IF raw >= 12 * Scale THEN "Low"
    ELSE "Very Low"

getRecommendation(raw) ==
    IF raw >= 50 * Scale
    THEN "REJECT IMMEDIATELY - Critical fraud indicators detected"
    ELSE IF raw >= 35 * Scale
    THEN "REJECT - Very high fraud probability detected"
    ELSE IF raw >= 25 * Scale
    THEN "MANUAL REVIEW REQUIRED - High risk factors present"
    ELSE IF raw >= 18 * Scale
    THEN "DETAILED REVIEW RECOMMENDED - Medium risk detected"
    ELSE IF raw >= 12 * Scale
    THEN "STANDARD REVIEW - Some concerns identified"
    ELSE IF raw >= 8 * Scale
    THEN "QUICK REVIEW - Minor flags detected"
    ELSE "APPROVE - Very low fraud risk"

getConfidenceLevel(raw, indicatorCount) ==
    IF indicatorCount >= 3 /\ (raw >= 30 * Scale \/ raw <= 15 * Scale) THEN "High"
    ELSE IF indicatorCount >= 2 /\ (raw >= 20 * Scale \/ raw <= 20 * Scale)
    THEN "Medium"
    ELSE IF indicatorCount >= 1 THEN "Medium"
    ELSE "Low"

\* needsManualReview from a score of 35 on.
NeedsManualReview_from35(raw) == raw >= 35 * Scale

\* needsManualReview: fraudScore >= 25
NeedsManualReview(raw) == raw >= 25 * Scale

\* autoApprove: fraudScore < 12
AutoApprove(raw) == raw < 12 * Scale

\* issues.join('; ') is kept as the list of issues.
Issues(list, otherwise) == IF list # <<>> THEN list ELSE <<otherwise>>

Issue(cond, text) == IF cond THEN <<text>> ELSE <<>>

getTitleIssueDescription(title) ==
    Issues(Issue(title.urgency, "Contains urgency-based emotional appeals")
           \o Issue(CapsRatioAbove(title, 3, 10), "Excessive use of capital letters")
           \o Issue(title.multiplePunct > 0, "Excessive punctuation usage")
           \o Issue(title.len < 10, "Title too short and vague"),
           "Multiple suspicious elements detected in title")

getDescriptionIssueDescription(description) ==
    Issues(Issue(description.solicit, "Contains direct financial solicitation")
           \o Issue(description.len < 100, "Description too brief and lacks detail")
           \o Issue(description.trust, "Uses trust-based or guarantee language"),
           "Multiple concerning elements in description")

getStoryIssueDescription(story) ==
    Issues(Issue(story.len < 200, "Story too short for credible narrative")
           \o Issue(story.copyPaste, "Shows signs of copied content")
           \* shortSentences / sentences.length > 0.7; 0/0 is above nothing
           \o Issue(story.shortSentences * 10 > 7 * story.sentences,
                    "Inconsistent sentence structure"),
           "Story shows potential fabrication indicators")

getAmountIssueDescription(score) ==
    IF score > 30 THEN <<"is significantly outside normal range for">>
    ELSE IF score > 20 THEN <<"is higher than typical for">>
    ELSE <<"shows some inconsistency with">>

Severity(score, high, medium) ==
    IF score > high THEN "High" ELSE IF score > medium THEN "Medium" ELSE "Low"

Indicator(type, severity, score, description) ==
    [type |-> type, severity |-> severity, score |-> score,
     description |-> description]

\* indicators.push(...) when the score is above the analyzer's threshold
Push(list, cond, indicator) == IF cond THEN Append(list, indicator) ELSE list

\* The indicators array kept in the class, not created by each call.
NewIndicators_shared == indicators

\* const indicators = []
NewIndicators == <<>>

\* getFraudIndicators up to its first store query: the four indicators of
\* the text fields and the goal amount.
TextIndicators(campaign) ==
    LET titleScore == analyzeTitleFraud(campaign.title)
        descScore == analyzeDescriptionFraud(campaign.description)
        storyScore == analyzeStoryFraud(campaign.story)
        amountScore == analyzeAmountFraud(campaign.goalAmount, campaign.category)
        i1 == Push(NewIndicators, titleScore > 15,
                   Indicator("Title Analysis", Severity(titleScore, 40, 25),
                             titleScore, getTitleIssueDescription(campaign.title)))
        i2 == Push(i1, descScore > 15,
                   Indicator("Description Analysis", Severity(descScore, 35, 25),
                             descScore,
                             getDescriptionIssueDescription(campaign.description)))
        i3 == Push(i2, storyScore > 15,
                   Indicator("Story Analysis", Severity(storyScore, 35, 25),
                             storyScore, getStoryIssueDescription(campaign.story)))
    IN  Push(i3, amountScore > 10,
             Indicator("Goal Amount", Severity(amountScore, 30, 20), amountScore,
                       getAmountIssueDescription(amountScore)))

CreatorIndicator(list, creatorScore) ==
    Push(list, creatorScore > 20,
         Indicator("Creator History", Severity(creatorScore, 40, 30), creatorScore,
            <<"Creator shows concerning campaign history or behavioral patterns">>))

PatternIndicator(list, patternScore) ==
    Push(list, patternScore > 10,
         Indicator("Pattern Analysis", Severity(patternScore, 25, 15), patternScore,
            <<"Campaign shows similarity to other potentially fraudulent campaigns">>))

\* getDetailedRiskFactors, given its own creator sub-score.
getDetailedRiskFactors(campaign, creatorScore) ==
    Issue(analyzeTitleFraud(campaign.title) > 25, "High-risk language in title")
    \o Issue(analyzeDescriptionFraud(campaign.description) > 25,
             "Suspicious description content")
    \o Issue(analyzeStoryFraud(campaign.story) > 25, "Story authenticity concerns")
    \o Issue(analyzeAmountFraud(campaign.goalAmount, campaign.category) > 20,
             "Unrealistic funding goal")
    \o Issue(creatorScore > 30, "Concerning creator history")

\* The object analyzeCampaign returns from its try block.
Analysis(raw, fraudIndicators, riskFactors) ==
    [fraudScore |-> Round(raw),
     riskLevel |-> getRiskLevel(raw),
     indicators |-> fraudIndicators,
     riskFactors |-> riskFactors,
     recommendation |-> getRecommendation(raw),
     needsManualReview |-> NeedsManualReview(raw),
     autoApprove |-> AutoApprove(raw),
     confidence |-> getConfidenceLevel(raw, Len(fraudIndicators))]

\* The object analyzeCampaign returns from its catch block.
SafeDefault ==
    [fraudScore |-> 50,
     riskLevel |-> "Unknown",
     indicators |-> <<>>,
     riskFactors |-> <<>>,
     recommendation |-> "MANUAL REVIEW REQUIRED - Analysis failed",
     needsManualReview |-> TRUE,
     autoApprove |-> FALSE,
     confidence |-> "Low"]

-----------------------------------------------------------------------------
(* Sample campaigns and stores.                                            *)

\* What an image analyzer would read of the cover image: whether there is
\* one, its pixel dimensions, and the markers found in it.
Image(present, width, height, stockMarker, screenshot, edited, blurred) ==
    [present |-> present, width |-> width, height |-> height,
     stockMarker |-> stockMarker, screenshot |-> screenshot, edited |-> edited,
     blurred |-> blurred]

\* No cover image.
imgNone == Image(FALSE, 0, 0, FALSE, FALSE, FALSE, FALSE)
\* An 800x600 stock preset, retouched, with the uniform border of a
\* screenshot.
imgStock == Image(TRUE, 800, 600, TRUE, TRUE, TRUE, FALSE)

\* The per-image risk score of the Image Forensics Analyzer.
ImageRiskScore(image) ==
    LET small == IF image.width < 400 /\ image.height < 400 THEN 15 ELSE 0
        presets == {<<800, 600>>, <<1024, 768>>, <<1920, 1080>>}
        stock == IF image.stockMarker \/ <<image.width, image.height>> \in presets
                 THEN 25 ELSE 0
        screenshot == IF image.screenshot THEN 20 ELSE 0
        edited == IF image.edited THEN 30 ELSE 0
        quality == IF image.blurred THEN 10 ELSE 0
    IN  Min(small + stock + screenshot + edited + quality, 100)

\* The image sub-score is above 40: overallRiskScore is the cover image's
\* risk score times 0.6 when there are no additional images.
ImageScoreAbove40(image) == 6 * ImageRiskScore(image) > 40 * 10

\* The image-aware composite: weights 0.20, 0.15, 0.15, 0.12, 0.10, 0.08 and
\* 0.20 for the image sub-score (0.6 of the cover image's risk score), base
\* risk 5, amplification, and the floors 35, 30 and 45.
ImageAwareComposite(s, image) ==
    LET weighted == 20 * s.title + 15 * s.description + 15 * s.story
                    + 12 * s.amount + 10 * s.creator + 8 * s.patterns
                    + 12 * ImageRiskScore(image)
        totalScore == weighted + 5 * 100
        significantRisks ==
            Cardinality({k \in DOMAIN s : s[k] > 20})
            + (IF 6 * ImageRiskScore(image) > 20 * 10 THEN 1 ELSE 0)
        amplified == IF significantRisks >= 3 THEN totalScore * 130
                     ELSE IF significantRisks >= 2 THEN totalScore * 115
                     ELSE totalScore * 100
        floor35 == IF s.title > 30 \/ s.description > 30
                   THEN Max(amplified, 35 * Scale) ELSE amplified
        floor30 == IF s.story > 25 /\ (s.title > 15 \/ s.description > 15)
                   THEN Max(floor35, 30 * Scale) ELSE floor35
        floor45 == IF ImageScoreAbove40(image)
                   THEN Max(floor30, 45 * Scale) ELSE floor30
    IN  Min(floor45, 100 * Scale)

\* campaignData: the fields the analyzers read, and the cover image, which
\* they do not.
Campaign(title, description, story, category, goalAmount, creator) ==
    [title |-> title, description |-> description, story |-> story,
     category |-> category, goalAmount |-> goalAmount, creator |-> creator,
     imageUrl |-> imgNone]

cLibrary == Campaign(tPlain, dGood, sGood, "Education", 15000, "u1")
cDog == Campaign(tUrgent, dShort, sShort, "Animal Welfare", 99999, "u2")
cWell == Campaign(tCaps, dMid, sGood, "Community", 10000, "u2")
cScam == Campaign(tCritical, dScam, sManip, "Arts", 1000000, "u3")
cFund == Campaign(tLibrary, dShelves, sGood, "Education", 15000, "u2")
cEmpty == Campaign(tEmpty, dEmpty, sEmpty, "Education", 15000, "u2")
cNoTitle == Campaign(Undefined, dGood, sGood, "Education", 15000, "u1")
cNoStory == Campaign(tPlain, dGood, Undefined, "Education", 15000, "u1")
\* The dog campaign with a long, well-formed story, by a creator of its own.
cDogStory == Campaign(tUrgent, dShort, sGood, "Animal Welfare", 99999, "u3")
\* A plea in the title of an otherwise unremarkable campaign.
cFloor == Campaign(tPlea, dGood, sGood, "Education", 15000, "u3")
\* A thin description and a story of two short sentences.
cThin == Campaign(tLibrary, dShort, sShort, "Education", 15000, "u3")
\* Three mild indicators: a thin description, a brief story, a round goal.
cBorder == Campaign(tLibrary, dShort, sBrief, "Education", 100000, "u2")
\* A whitespace-only story under an empty title and description.
cBlank == Campaign(tEmpty, dEmpty, sBlank, "Education", 15000, "u3")
\* The library fund with a doctored stock image as its cover.
cPhoto == [cFund EXCEPT !.imageUrl = imgStock]

Campaigns == {cLibrary, cDog, cWell, cScam, cFund, cEmpty, cNoTitle, cNoStory,
              cDogStory, cPhoto, cFloor, cThin, cBorder, cBlank}

\* u1 submitted four library campaigns within a week; three were rejected.
storeHistory ==
    <<Stored("u1", "Education", "rejected", Now0 - 6, 15000, tPlain, dGood),
      Stored("u1", "Education", "rejected", Now0 - 4, 15000, tPlain, dGood),
      Stored("u1", "Education", "rejected", Now0 - 3, 15000, tPlain, dGood),
      Stored("u1", "Education", "pending", Now0 - 2, 15000, tPlain, dGood)>>

\* u2's two campaigns are a year old (they leave the 365-day window when
\* the clock moves); u4's are two months old (the 60-day window).
storeOld ==
    <<Stored("u2", "Community", "completed", Now0 - 365, 10000, tCaps, dMid),
      Stored("u2", "Community", "completed", Now0 - 365, 20000, tCaps, dMid),
      Stored("u4", "Community", "active", Now0 - 60, 10000, tCaps, dMid)>>

Stores == {<<>>, storeHistory, storeOld}

\* The awaits of analyzeCampaign at which a store query is outstanding.
QueryPoints == {"score_creator", "score_patterns", "indicator_creator",
                "indicator_patterns", "factors_creator"}

NoSubScores == [title |-> Unset, description |-> Unset, story |-> Unset,
                amount |-> Unset, creator |-> Unset, patterns |-> Unset]

\* No call has returned yet.
NoAnalysis == [SafeDefault EXCEPT !.fraudScore = Unset, !.riskLevel = "none"]

Init ==
    /\ store \in Stores
    /\ now = Now0
    /\ camp \in Campaigns
    /\ pc = "idle"
    /\ sub = NoSubScores
    /\ total = Unset
    /\ indicators = <<>>
    /\ result = NoAnalysis
    /\ failed = {}
    /\ approvals = 0
    /\ prev = [calls |-> 0, store |-> <<>>, now |-> 0, result |-> NoAnalysis,
               failed |-> {}]

\* A caller invokes analyzeCampaign(campaignData).
Invoke ==
    /\ pc = "idle"
    /\ pc' = "score_text"
    /\ prev' = [prev EXCEPT !.store = store, !.now = now]
    /\ UNCHANGED <<store, now, camp, sub, total, indicators, result, failed,
                   approvals>>

\* A text analyzer dereferences its argument: undefined raises a TypeError.
Throws(campaign) ==
    \/ campaign.title = Undefined
    \/ campaign.description = Undefined
    \/ campaign.story = Undefined

\* A catch block that fails open.
Catch_failOpen ==
    [pc |-> "done",
     result |-> [SafeDefault EXCEPT !.fraudScore = 0, !.needsManualReview = FALSE,
                                    !.autoApprove = TRUE]]

\* The catch block of analyzeCampaign: the call returns the safe default.
Catch == [pc |-> "done", result |-> SafeDefault]

\* calculateFraudScore up to its first store query (the four pure
\* analyzers); an exception is caught by analyzeCampaign, which returns.
ScoreTexts ==
    /\ pc = "score_text"
    /\ failed' = {}
    /\ IF Throws(camp)
       THEN /\ pc' = Catch.pc
            /\ result' = Catch.result
            /\ UNCHANGED sub
       ELSE /\ pc' = "score_creator"
            /\ sub' = [NoSubScores EXCEPT
                 !.title = analyzeTitleFraud(camp.title),
                 !.description = analyzeDescriptionFraud(camp.description),
                 !.story = analyzeStoryFraud(camp.story),
                 !.amount = analyzeAmountFraud(camp.goalAmount, camp.category)]
            /\ UNCHANGED result
    /\ UNCHANGED <<store, now, camp, total, indicators, approvals, prev>>

\* What a finished or rejected query adds to the record of failures.
Outcome(answered) == IF answered THEN failed ELSE failed \cup {pc}

\* The store answers (or rejects) the query of analyzeCreatorHistory called
\* from calculateFraudScore, which goes on to analyzePatterns.
ScoreCreator ==
    /\ pc = "score_creator"
    /\ \E answered \in BOOLEAN :
         /\ sub' = [sub EXCEPT !.creator =
                       analyzeCreatorHistory(camp.creator, store, now, answered)]
         /\ failed' = Outcome(answered)
    /\ pc' = "score_patterns"
    /\ store' = Find(store)
    /\ UNCHANGED <<now, camp, total, indicators, result, approvals, prev>>

\* The store answers the query of analyzePatterns called from
\* calculateFraudScore, which returns the composite; getFraudIndicators
\* starts and runs up to its own creator query.
ScorePatterns ==
    /\ pc = "score_patterns"
    /\ \E answered \in BOOLEAN :
         /\ sub' = [sub EXCEPT !.patterns =
                       analyzePatterns(camp, store, now, answered)]
         /\ failed' = Outcome(answered)
    /\ total' = Composite(sub')
    /\ indicators' = TextIndicators(camp)
    /\ pc' = "indicator_creator"
    /\ store' = Find(store)
    /\ UNCHANGED <<now, camp, result, approvals, prev>>

\* The store answers the creator query of getFraudIndicators.
IndicatorCreator ==
    /\ pc = "indicator_creator"
    /\ \E answered \in BOOLEAN :
         /\ indicators' = CreatorIndicator(indicators,
                analyzeCreatorHistory(camp.creator, store, now, answered))
         /\ failed' = Outcome(answered)
    /\ pc' = "indicator_patterns"
    /\ store' = Find(store)
    /\ UNCHANGED <<now, camp, sub, total, result, approvals, prev>>

\* The store answers the pattern query of getFraudIndicators, which returns;
\* getDetailedRiskFactors starts and runs up to its creator query.
IndicatorPatterns ==
    /\ pc = "indicator_patterns"
    /\ \E answered \in BOOLEAN :
         /\ indicators' = PatternIndicator(indicators,
                analyzePatterns(camp, store, now, answered))
         /\ failed' = Outcome(answered)
    /\ pc' = "factors_creator"
    /\ store' = Find(store)
    /\ UNCHANGED <<now, camp, sub, total, result, approvals, prev>>

\* The store answers the creator query of getDetailedRiskFactors, and
\* analyzeCampaign builds and returns its result.
FactorsCreator ==
    /\ pc = "factors_creator"
    /\ \E answered \in BOOLEAN :
         /\ result' = Analysis(total, indicators,
                getDetailedRiskFactors(camp,
                    analyzeCreatorHistory(camp.creator, store, now, answered)))
         /\ failed' = Outcome(answered)
    /\ pc' = "done"
    /\ store' = Find(store)
    /\ UNCHANGED <<now, camp, sub, total, indicators, approvals, prev>>

\* A day passes.
Tick ==
    /\ now < Now0 + MaxTicks
    /\ now' = now + 1
    /\ UNCHANGED <<store, camp, pc, sub, total, indicators, result, failed,
                   approvals, prev>>

\* A concurrent PUT /campaigns/:id/approve carrying forceApprove and an
\* adminNote: whatever the fraud score, the campaign is set to 'active'.
ConcurrentApprove ==
    /\ approvals < MaxApprovals
    /\ \E i \in 1..Len(store) :
         /\ store[i].status # "active"
         /\ store' = [store EXCEPT ![i].status = "active"]
    /\ approvals' = approvals + 1
    /\ UNCHANGED <<now, camp, pc, sub, total, indicators, result, failed, prev>>

\* The caller calls analyzeCampaign again with the same snapshot.
Repeat ==
    /\ pc = "done"
    /\ prev.calls = 0
    /\ prev' = [prev EXCEPT !.calls = 1, !.result = result, !.failed = failed]
    /\ pc' = "score_text"
    /\ UNCHANGED <<store, now, camp, sub, total, indicators, result, failed,
                   approvals>>

Next ==
    \/ Invoke
    \/ ScoreTexts
    \/ ScoreCreator
    \/ ScorePatterns
    \/ IndicatorCreator
    \/ IndicatorPatterns
    \/ FactorsCreator
    \/ Tick
    \/ ConcurrentApprove

Spec == Init /\ [][Next]_vars

\* The same program, with the caller repeating the call once.
NextTwice == Next \/ Repeat

\* The snapshots whose call is repeated.
RepeatedCampaigns == {cWell, cFund, cDog, cNoStory}

InitTwice == Init /\ camp \in RepeatedCampaigns /\ store # <<>>

SpecTwice == InitTwice /\ [][NextTwice]_vars

\* The steps that need nothing but the JavaScript event loop; a step that
\* consumes the store's answer to a query waits for the store.
LiveSpec == Init /\ [][Next]_vars /\ WF_vars(ScoreTexts)

-----------------------------------------------------------------------------
(* calculateFraudScore on its own, from sub-scores the analyzers can        *)
(* return: every analyzer but the title analyzer returns multiples of 5.    *)

SubScoreValues ==
    [title |-> {0, 15, 16, 20, 21, 30, 31, 100},
     description |-> {0, 15, 20, 25, 30, 35, 100},
     story |-> {0, 20, 25, 30, 100},
     amount |-> {0, 20, 25, 100},
     creator |-> {0, 20, 25, 100},
     patterns |-> {0, 20, 25, 100}]

SubScoreGrid ==
    [title : SubScoreValues.title, description : SubScoreValues.description,
     story : SubScoreValues.story, amount : SubScoreValues.amount,
     creator : SubScoreValues.creator, patterns : SubScoreValues.patterns]

InitComposite ==
    /\ store = <<>>
    /\ now = Now0
    /\ camp = cFund
    /\ pc = "weigh"
    /\ sub \in SubScoreGrid
    /\ total = Unset
    /\ indicators = <<>>
    /\ result = NoAnalysis
    /\ failed = {}
    /\ approvals = 0
    /\ prev = [calls |-> 0, store |-> <<>>, now |-> 0, result |-> NoAnalysis,
               failed |-> {}]

\* calculateFraudScore from its weighting to its return.
Weigh ==
    /\ pc = "weigh"
    /\ total' = Composite(sub)
    /\ pc' = "weighed"
    /\ UNCHANGED <<store, now, camp, sub, indicators, result, failed,
                   approvals, prev>>

SpecComposite == InitComposite /\ [][Weigh]_vars

-----------------------------------------------------------------------------
(* analyzeTitleFraud on its own, on titles around its thresholds.           *)

\* Capital-letter counts at and next to the ratios 0.2, 0.3 and 0.5.
CapsGrid(len) ==
    ({0, len} \cup {(k * len) \div 10 + d : k \in {2, 3, 5}, d \in {0, 1}})
    \cap 0..len

TitleLengths == {0, 4, 9, 10, 11, 20, 100, 200, 201}

\* A title with these match counts exists: the shortest critical phrase has
\* 8 characters, the shortest high-risk word 5, the shortest emotional word
\* 6, the shortest scam pattern 11, and punctuation runs are no letters.
Writable(t) ==
    /\ t.multiplePunct >= t.excessivePunct
    /\ t.len >= 8 * t.critical + 5 * t.highRisk + 6 * t.emotional
                 + 11 * t.scam + 2 * t.multiplePunct + t.excessivePunct
    /\ t.caps <= t.len - 2 * t.multiplePunct - t.excessivePunct

TitleGrid ==
    UNION {{t \in {Title(len, caps, critical, highRisk, emotional,
                         excessivePunct, multiplePunct, scam, FALSE, <<>>) :
                      caps \in CapsGrid(len), critical \in 0..2,
                      highRisk \in 0..1, emotional \in {0, 1, 3},
                      excessivePunct \in 0..1, multiplePunct \in 0..2,
                      scam \in 0..1} :
               Writable(t)} :
           len \in TitleLengths}

InitTitle ==
    /\ store = <<>>
    /\ now = Now0
    /\ camp \in {[cFund EXCEPT !.title = t] : t \in TitleGrid}
    /\ pc = "title"
    /\ sub = NoSubScores
    /\ total = Unset
    /\ indicators = <<>>
    /\ result = NoAnalysis
    /\ failed = {}
    /\ approvals = 0
    /\ prev = [calls |-> 0, store |-> <<>>, now |-> 0, result |-> NoAnalysis,
               failed |-> {}]

\* A call of analyzeTitleFraud(campaign.title).
ScoreTitle ==
    /\ pc = "title"
    /\ sub' = [sub EXCEPT !.title = analyzeTitleFraud(camp.title)]
    /\ pc' = "title_scored"
    /\ UNCHANGED <<store, now, camp, total, indicators, result, failed,
                   approvals, prev>>

SpecTitle == InitTitle /\ [][ScoreTitle]_vars

-----------------------------------------------------------------------------
(* analyzeDescriptionFraud on its own, on descriptions around its           *)
(* thresholds.                                                              *)

\* A description with these counts exists: the counted words have more than
\* three letters, one of them occurs maxRepetition times, and words are
\* separated by a blank.
WritableDescription(d) ==
    /\ d.uniqueWords >= 1
    /\ d.maxRepetition >= 1
    /\ d.uniqueWords - 1 + d.maxRepetition <= d.nWords
    /\ d.len >= 2 * d.nWords - 1 + 3 * (d.uniqueWords - 1 + d.maxRepetition)

DescriptionGrid ==
    {d \in {Description(len, fraudPhrases, financial, nWords, maxRepetition,
                        uniqueWords, generic, FALSE, FALSE, <<>>) :
               len \in {40, 99, 100, 400}, fraudPhrases \in 0..1,
               financial \in 0..1, nWords \in {9, 49, 50, 51, 60},
               maxRepetition \in {1, 5, 6, 8, 9},
               uniqueWords \in {1, 2, 14, 15, 17, 18, 40},
               generic \in 0..1} :
        WritableDescription(d)}
    \cup {dFifty}

InitDescription ==
    /\ store = <<>>
    /\ now = Now0
    /\ camp \in {[cFund EXCEPT !.description = d] : d \in DescriptionGrid}
    /\ pc = "description"
    /\ sub = NoSubScores
    /\ total = Unset
    /\ indicators = <<>>
    /\ result = NoAnalysis
    /\ failed = {}
    /\ approvals = 0
    /\ prev = [calls |-> 0, store |-> <<>>, now |-> 0, result |-> NoAnalysis,
               failed |-> {}]

\* A call of analyzeDescriptionFraud(campaign.description).
ScoreDescription ==
    /\ pc = "description"
    /\ sub' = [sub EXCEPT !.description = analyzeDescriptionFraud(camp.description)]
    /\ pc' = "description_scored"
    /\ UNCHANGED <<store, now, camp, total, indicators, result, failed,
                   approvals, prev>>

SpecDescription == InitDescription /\ [][ScoreDescription]_vars

-----------------------------------------------------------------------------
(* analyzeCreatorHistory on its own, on histories of up to MaxHistory       *)
(* campaigns of the creator.                                                *)

MaxHistory == 3

\* A campaign of u1: created 2 days ago or 366 days ago (outside the window
\* of the query), in any status, with one of two goal amounts.
HistoryCampaigns ==
    {Stored("u1", "Education", status, Now0 - age, goalAmount, tPlain, dGood) :
        status \in {"pending", "active", "completed", "rejected"},
        age \in {2, 366}, goalAmount \in {15000, 20000}}

HistoryGrid == UNION {[1..n -> HistoryCampaigns] : n \in 0..MaxHistory}

InitCreator ==
    /\ store \in HistoryGrid
    /\ now = Now0
    /\ camp = cLibrary
    /\ pc = "creator"
    /\ sub = NoSubScores
    /\ total = Unset
    /\ indicators = <<>>
    /\ result = NoAnalysis
    /\ failed = {}
    /\ approvals = 0
    /\ prev = [calls |-> 0, store |-> <<>>, now |-> 0, result |-> NoAnalysis,
               failed |-> {}]

\* A call of analyzeCreatorHistory(campaign.creator).
ScoreCreatorHistory ==
    /\ pc = "creator"
    /\ \E answered \in BOOLEAN :
         /\ sub' = [sub EXCEPT !.creator =
                       analyzeCreatorHistory(camp.creator, store, now, answered)]
         /\ failed' = Outcome(answered)
    /\ pc' = "creator_scored"
    /\ store' = Find(store)
    /\ UNCHANGED <<now, camp, total, indicators, result, approvals, prev>>

SpecCreator == InitCreator /\ [][ScoreCreatorHistory]_vars

-----------------------------------------------------------------------------
(* analyzePatterns on its own, on the library fund (cFund, of u2, in        *)
(* 'Education', goal 15000) against up to MaxComparisons stored campaigns.  *)

MaxComparisons == 4

\* Title ratios against cFund: tPlain 3/4, tOpening 2/3, tCaps 0, tLibrary 1.
\* Description ratios: dGood 3/7, dMid 2/6, dShelves 1.
ComparisonCampaigns ==
    {Stored("u1", "Education", "pending", Now0 - 2, 15000, tPlain, dGood),
     Stored("u4", "Education", "active", Now0 - 10, 15500, tOpening, dMid),
     Stored("u4", "Education", "pending", Now0 - 60, 90000, tCaps, dShelves),
     \* by the creator of cFund
     Stored("u2", "Education", "pending", Now0 - 1, 15000, tLibrary, dShelves),
     \* older than 60 days
     Stored("u4", "Education", "pending", Now0 - 61, 15000, tLibrary, dShelves),
     \* of another category
     Stored("u4", "Community", "pending", Now0 - 1, 15000, tLibrary, dShelves)}

ComparisonGrid == UNION {[1..n -> ComparisonCampaigns] : n \in 0..MaxComparisons}

InitPatterns ==
    /\ store \in ComparisonGrid
    /\ now = Now0
    /\ camp = cFund
    /\ pc = "patterns"
    /\ sub = NoSubScores
    /\ total = Unset
    /\ indicators = <<>>
    /\ result = NoAnalysis
    /\ failed = {}
    /\ approvals = 0
    /\ prev = [calls |-> 0, store |-> <<>>, now |-> 0, result |-> NoAnalysis,
               failed |-> {}]

\* A call of analyzePatterns(campaign).
ScoreSimilarity ==
    /\ pc = "patterns"
    /\ \E answered \in BOOLEAN :
         /\ sub' = [sub EXCEPT !.patterns =
                       analyzePatterns(camp, store, now, answered)]
         /\ failed' = Outcome(answered)
    /\ pc' = "patterns_scored"
    /\ store' = Find(store)
    /\ UNCHANGED <<now, camp, total, indicators, result, approvals, prev>>

SpecPatterns == InitPatterns /\ [][ScoreSimilarity]_vars

-----------------------------------------------------------------------------
(* The admin routes that decide on a campaign (routes/admin.js) behind the  *)
(* middleware preventHighRiskApproval (middleware/fraudDetection.js).  A    *)
(* request analyses the stored campaign with analyzeCampaign, whose steps   *)
(* are the actions above; prev holds the request being served.             *)

\* Requests served per behaviour.
MaxRequests == 2

\* A Campaign document: the snapshot's fields, its status and createdAt.
Doc(campaign, status, createdAt) ==
    [creator |-> campaign.creator, category |-> campaign.category,
     status |-> status, createdAt |-> createdAt,
     goalAmount |-> campaign.goalAmount, title |-> campaign.title,
     description |-> campaign.description, story |-> campaign.story,
     imageUrl |-> campaign.imageUrl]

\* campaign.toObject(), as far as the analyzers read it.
ToObject(doc) ==
    [Campaign(doc.title, doc.description, doc.story, doc.category,
              doc.goalAmount, doc.creator) EXCEPT !.imageUrl = doc.imageUrl]

\* The first campaign of u1, pending since yesterday; a pending scam of u3;
\* a rejected campaign of u2.
adminStore ==
    <<Doc(cLibrary, "pending", Now0 - 1),
      Doc(cScam, "pending", Now0 - 2),
      Doc(cDog, "rejected", Now0 - 3)>>

\* req.params.id: the campaigns of the store, and 0 for an id of none.
Ids == 0..Len(adminStore)

\* No request is being served; response is what the last one was answered.
NoRequest(served, response) ==
    [request |-> "none", id |-> 0, forceApprove |-> FALSE, adminNote |-> FALSE,
     phase |-> "none", analysed |-> FALSE, served |-> served,
     response |-> response]

InitAdmin ==
    /\ store = adminStore
    /\ now = Now0
    /\ camp = ToObject(adminStore[1])
    /\ pc = "idle"
    /\ sub = NoSubScores
    /\ total = Unset
    /\ indicators = <<>>
    /\ result = NoAnalysis
    /\ failed = {}
    /\ approvals = 0
    /\ prev = NoRequest(0, "none")

\* Campaign.findById(req.params.id): the document, or null.
FindById(campaigns, id) == id \in 1..Len(campaigns)

\* res.status(...).json(...): the request is answered.
Respond(response) ==
    /\ pc' = "idle"
    /\ prev' = NoRequest(prev.served, response)

\* analyzeCampaign(campaign.toObject()) is called on behalf of a phase of
\* the request.
Analyse(phase) ==
    /\ camp' = ToObject(store[prev.id])
    /\ pc' = "score_text"
    /\ prev' = [prev EXCEPT !.phase = phase]

\* PUT /campaigns/:id/approve arrives; preventHighRiskApproval starts.
RequestApprove ==
    /\ pc = "idle"
    /\ prev.served < MaxRequests
    /\ \E id \in Ids, forceApprove \in BOOLEAN, adminNote \in BOOLEAN :
         prev' = [NoRequest(prev.served + 1, "none") EXCEPT
                     !.request = "approve", !.id = id,
                     !.forceApprove = forceApprove, !.adminNote = adminNote]
    /\ pc' = "gate_find"
    /\ sub' = NoSubScores
    /\ total' = Unset
    /\ indicators' = <<>>
    /\ result' = NoAnalysis
    /\ failed' = {}
    /\ UNCHANGED <<store, now, camp, approvals>>

\* preventHighRiskApproval, line 99: the store answers findById, or rejects
\* it and the catch block calls next().
GateFind ==
    /\ pc = "gate_find"
    /\ \E answered \in BOOLEAN :
         IF answered /\ FindById(store, prev.id)
         THEN Analyse("gate")
         ELSE /\ pc' = "handler_find"
              /\ prev' = prev
              /\ camp' = camp
    /\ store' = Find(store)
    /\ UNCHANGED <<now, sub, total, indicators, result, failed, approvals>>

\* preventHighRiskApproval, lines 104-125, with the analysis at hand.
GateDecide ==
    /\ pc = "done"
    /\ prev.phase = "gate"
    /\ IF result.fraudScore >= 80 /\ ~prev.forceApprove
       THEN Respond("blocked")
       ELSE /\ pc' = "handler_find"
            /\ prev' = [prev EXCEPT !.analysed = TRUE, !.phase = "handler"]
    /\ UNCHANGED <<store, now, camp, sub, total, indicators, result, failed,
                   approvals>>

\* The adminNote test of the approve handler, lines 265-272, and what follows it.
NoteCheck ==
    IF result.fraudScore >= 50 /\ ~prev.adminNote
    THEN Respond("note_required")
    ELSE pc' = "handler_update" /\ prev' = prev

\* The approve handler, line 252: the store answers findById; with
\* req.fraudAnalysis set the handler runs on to its update.
HandlerFind ==
    /\ pc = "handler_find"
    /\ \E answered \in BOOLEAN :
         IF ~answered THEN Respond("error") /\ camp' = camp
         ELSE IF ~FindById(store, prev.id) THEN Respond("not_found") /\ camp' = camp
         ELSE IF prev.analysed THEN NoteCheck /\ camp' = camp
         ELSE Analyse("handler")
    /\ store' = Find(store)
    /\ UNCHANGED <<now, sub, total, indicators, result, failed, approvals>>

\* The approve handler, lines 262-272, with its own analysis at hand.
HandlerDecide ==
    /\ pc = "done"
    /\ prev.phase = "handler"
    /\ ~prev.analysed
    /\ NoteCheck
    /\ UNCHANGED <<store, now, camp, sub, total, indicators, result, failed,
                   approvals>>

\* The approve handler, lines 299-303: findByIdAndUpdate sets the status to
\* 'active', or fails and the catch block answers 400.
HandlerUpdate ==
    /\ pc = "handler_update"
    /\ \E answered \in BOOLEAN :
         IF answered /\ FindById(store, prev.id)
         THEN /\ store' = [store EXCEPT ![prev.id].status = "active"]
              /\ Respond("approved")
         ELSE /\ store' = store
              /\ Respond("error")
    /\ UNCHANGED <<now, camp, sub, total, indicators, result, failed, approvals>>

\* PUT /campaigns/:id/reject arrives, with or without a reason.
RequestReject ==
    /\ pc = "idle"
    /\ prev.served < MaxRequests
    /\ \E id \in Ids, reason \in BOOLEAN :
         IF reason
         THEN /\ prev' = [NoRequest(prev.served + 1, "none") EXCEPT
                             !.request = "reject", !.id = id]
              /\ pc' = "reject_find"
         ELSE /\ prev' = NoRequest(prev.served + 1, "reason_required")
              /\ pc' = "idle"
    /\ sub' = NoSubScores
    /\ total' = Unset
    /\ indicators' = <<>>
    /\ result' = NoAnalysis
    /\ failed' = {}
    /\ UNCHANGED <<store, now, camp, approvals>>

\* The reject handler, lines 333-350: findById, the status check, and the
\* call of analyzeCampaign.
RejectFind ==
    /\ pc = "reject_find"
    /\ \E answered \in BOOLEAN :
         IF ~answered THEN Respond("error") /\ camp' = camp
         ELSE IF ~FindById(store, prev.id) THEN Respond("not_found") /\ camp' = camp
         ELSE IF store[prev.id].status # "pending"
              THEN Respond("not_pending") /\ camp' = camp
         ELSE Analyse("reject")
    /\ store' = Find(store)
    /\ UNCHANGED <<now, sub, total, indicators, result, failed, approvals>>

\* The reject handler, lines 355-367: campaign.save() writes the status
\* 'rejected', or fails.
RejectSave ==
    /\ pc = "done"
    /\ prev.phase = "reject"
    /\ \E answered \in BOOLEAN :
         IF answered /\ FindById(store, prev.id)
         THEN /\ store' = [store EXCEPT ![prev.id].status = "rejected"]
              /\ Respond("rejected")
         ELSE /\ store' = store
              /\ Respond("error")
    /\ UNCHANGED <<now, camp, sub, total, indicators, result, failed, approvals>>

NextAdmin ==
    \/ RequestApprove
    \/ GateFind
    \/ GateDecide
    \/ HandlerFind
    \/ HandlerDecide
    \/ HandlerUpdate
    \/ RequestReject
    \/ RejectFind
    \/ RejectSave
    \/ ScoreTexts
    \/ ScoreCreator
    \/ ScorePatterns
    \/ IndicatorCreator
    \/ IndicatorPatterns
    \/ FactorsCreator
    \/ ConcurrentApprove

SpecAdmin == InitAdmin /\ [][NextAdmin]_vars

-----------------------------------------------------------------------------
(* Properties.                                                             *)

Returned == pc = "done"

\* The call took its try block to the end.
ReturnedAnalysis == Returned /\ ~Throws(camp)

RiskLevels == {"Very Low", "Low", "Medium", "High", "Very High", "Critical"}

IndicatorTypes == {indicators[i].type : i \in 1..Len(indicators)}

CreatorQueryFailed == failed \cap {"score_creator", "indicator_creator"} # {}

PatternQueryFailed == failed \cap {"score_patterns", "indicator_patterns"} # {}

\* C1: a call on a snapshot with a missing title, description or story does
\* not raise and goes nowhere but to its return, and what it returns is the
\* fixed safe default: score 50, 'Unknown', no indicators, manual review
\* required, no auto-approval, confidence 'Low'.
C1_ExceptionYieldsSafeDefault ==
    (/\ pc \notin {"idle", "score_text"}
     /\ \/ camp.title = Undefined
        \/ camp.description = Undefined
        \/ camp.story = Undefined)
    => /\ pc = "done"
       /\ result.fraudScore = 50
       /\ result.riskLevel = "Unknown"
       /\ result.indicators = <<>>
       /\ result.recommendation = "MANUAL REVIEW REQUIRED - Analysis failed"
       /\ result.needsManualReview = TRUE
       /\ result.autoApprove = FALSE
       /\ result.confidence = "Low"

C1_Witness ==
    /\ Returned
    /\ camp.story = Undefined
    /\ camp.title # Undefined
    /\ result.riskLevel = "Unknown"

\* C2 (as claimed): a call whose creator-history lookup or pattern lookup
\* (or both) failed while the score was computed never returns
\* autoApprove = true.
C2_FailureNeverAutoApproves ==
    (Returned /\ failed \cap {"score_creator", "score_patterns"} # {})
    => result.autoApprove = FALSE

\* C3 (as claimed): in a result of the try block needsManualReview is true
\* exactly when the returned fraudScore is at least 25, and autoApprove
\* exactly when it is below 12.
C3_FlagsFollowReturnedScore ==
    ReturnedAnalysis =>
        /\ result.needsManualReview = (result.fraudScore >= 25)
        /\ result.autoApprove = (result.fraudScore < 12)

\* C4 (as claimed): in a result of the try block riskLevel is the documented
\* tier of the returned fraudScore.
C4_RiskLevelFollowsReturnedScore ==
    ReturnedAnalysis =>
        result.riskLevel =
            (IF result.fraudScore >= 50 THEN "Critical"
             ELSE IF result.fraudScore >= 35 THEN "Very High"
             ELSE IF result.fraudScore >= 25 THEN "High"
             ELSE IF result.fraudScore >= 18 THEN "Medium"
             ELSE IF result.fraudScore >= 12 THEN "Low"
             ELSE "Very Low")

\* C5: whatever the store does, the returned fraudScore is an integer from 0
\* to 100, and so is every sub-score computed on the way (those of
\* calculateFraudScore and those reported in the indicators).
C5_ScoresWithinRange ==
    /\ Returned => result.fraudScore \in 0..100
    /\ \A k \in DOMAIN sub : sub[k] # Unset => sub[k] \in 0..100
    /\ \A i \in 1..Len(indicators) : indicators[i].score \in 0..100
    /\ total # Unset => total \in 0..(100 * Scale)

C5_Witness ==
    /\ Returned
    /\ result.fraudScore = 100
    /\ sub.title = 100
    /\ failed # {}

\* C6: a failed creator query leaves the creator sub-score at exactly 20, a
\* failed pattern query leaves the pattern sub-score at exactly 5, and the
\* call still returns the result of its try block, computed from those
\* sub-scores.
C6_FailureAbsorbedByAnalyzer ==
    /\ "score_creator" \in failed => sub.creator = 20
    /\ "score_patterns" \in failed => sub.patterns = 5
    /\ (Returned /\ failed # {}) =>
          /\ result.riskLevel \in RiskLevels
          /\ result.fraudScore = Round(Composite(sub))
          /\ result.indicators = indicators

C6_Witness ==
    /\ Returned
    /\ {"score_creator", "score_patterns"} \subseteq failed
    /\ sub.creator = 20
    /\ sub.patterns = 5
    /\ result.riskLevel \in RiskLevels

\* C7 (as claimed): when a creator query failed the returned indicators hold
\* a Creator History indicator, and when a pattern query failed they hold a
\* Pattern Analysis indicator.
C7_FailureIsExplained ==
    ReturnedAnalysis =>
        /\ CreatorQueryFailed => "Creator History" \in IndicatorTypes
        /\ PatternQueryFailed => "Pattern Analysis" \in IndicatorTypes


\* C8 (as claimed): every call that has started eventually returns, also
\* when the store leaves a query unanswered.
C8_EveryCallReturns == (pc = "score_text") ~> (pc = "done")

\* Both calls of a repeated call have returned, on the same snapshot, with
\* the store as it was when the first call started.
RepeatedOnSameStore ==
    /\ Returned
    /\ prev.calls = 1
    /\ store = prev.store

\* C9 (as claimed): two calls with the same snapshot and the same store
\* contents, every query answered, return identical results.
C9_SameStoreSameResult ==
    (RepeatedOnSameStore /\ failed = {} /\ prev.failed = {})
    => result = prev.result

\* C9 (amended): two calls with the same snapshot, the same store contents,
\* the same clock reading and the same outcome of each store query return
\* identical results.
C9_SameStoreAndClockSameResult ==
    (RepeatedOnSameStore /\ now = prev.now /\ failed = prev.failed)
    => result = prev.result

C9_Witness ==
    /\ RepeatedOnSameStore
    /\ now = prev.now
    /\ failed = prev.failed
    /\ store # <<>>
    /\ Len(result.indicators) >= 2
    /\ result = prev.result

\* C10: no step of a call changes the campaign store or the snapshot the
\* call was given, on the path through the try block and on the path
\* through the catch block alike.
C10_CallLeavesStoreAndSnapshot ==
    [][pc' # pc => (store' = store /\ camp' = camp)]_vars

C10_Witness ==
    /\ Returned
    /\ store # <<>>
    /\ failed # {}
    /\ approvals = 0
    /\ store = prev.store

-----------------------------------------------------------------------------
(* Acceptance scenarios.                                                   *)

\* The creator of the snapshot has no campaign in the store.
NewCreator == \A i \in 1..Len(store) : store[i].creator # camp.creator

\* The store holds no campaign of the snapshot's category.
NoSimilarCampaigns == \A i \in 1..Len(store) : store[i].category # camp.category

\* Scenario 1 has been analysed: a call on the dying-dog title with a
\* 40-character description and a goal of 99999 in 'Animal Welfare' has
\* returned, the creator being new, no campaign of the category in the store
\* and every store query answered.
Scenario1 ==
    /\ ReturnedAnalysis
    /\ camp.title = tUrgent
    /\ camp.description.len = 40
    /\ camp.goalAmount = 99999
    /\ camp.category = "Animal Welfare"
    /\ NewCreator
    /\ NoSimilarCampaigns
    /\ failed = {}

Reject == {"REJECT IMMEDIATELY - Critical fraud indicators detected",
           "REJECT - Very high fraud probability detected"}

CreatorCampaigns == SelectSeq(store, LAMBDA c : c.creator = camp.creator)

\* Scenario 3 has been scored: the creator's history is exactly four
\* campaigns, all of the last 7 days, three of them rejected, and the store
\* answered the creator query of calculateFraudScore.
Scenario3 ==
    /\ pc \notin {"idle", "score_text", "score_creator"}
    /\ ~Throws(camp)
    /\ "score_creator" \notin failed
    /\ Len(CreatorCampaigns) = 4
    /\ \A i \in 1..4 : now - CreatorCampaigns[i].createdAt < 7
    /\ Len(SelectSeq(CreatorCampaigns, LAMBDA c : c.status = "rejected")) = 3

\* Histories of scenario 3's shape: goal amounts all equal, all different or
\* with one pair, the campaign that was not rejected in any other status,
\* the four created within the week.
Scenario3Histories ==
    {[i \in 1..4 |->
        Stored("u1", "Education", IF i = 4 THEN status ELSE "rejected",
               Now0 - ages[i], 1000 * amounts[i], tPlain, dGood)] :
        amounts \in {<<15, 15, 15, 15>>, <<15, 20, 25, 30>>, <<15, 15, 20, 25>>,
                     <<15, 20, 25, 25>>},
        status \in {"pending", "active", "completed"},
        ages \in {<<6, 4, 3, 2>>, <<0, 0, 0, 0>>, <<6, 6, 6, 6>>}}

\* C12 (as claimed): in scenario 3 the creator sub-score holds the rejection
\* addition (35 or more) and the frequency addition (30), and stands at its
\* ceiling of 100.
C12_Scenario3AtCeiling ==
    Scenario3 => (sub.creator >= 35 + 30 /\ sub.creator = 100)

\* C12 (amended): in scenario 3 the creator sub-score holds the rejection
\* addition of 50 and the frequency addition of 30: it is 80, or 95 when two
\* of the four campaigns share a goal amount, and never the ceiling of 100.
C12_Scenario3BothAdditions ==
    /\ Scenario3 => sub.creator \in {50 + 30, 50 + 30 + 15}
    /\ \A h \in Scenario3Histories :
          CreatorHistoryScore(h, Now0) =
             (IF \E i, j \in 1..4 : i # j /\ h[i].goalAmount = h[j].goalAmount
              THEN 95 ELSE 80)

C12_Witness ==
    /\ Scenario3
    /\ Returned
    /\ sub.creator = 95
    /\ "Creator History" \in IndicatorTypes

\* C13 (as claimed): a campaign with images is scored with the image-aware
\* weights, and when its image sub-score is above 40 the fraudScore is at
\* least 45 and needsManualReview is true.
C13_ImagesWeighedAndFloored ==
    (ReturnedAnalysis /\ camp.imageUrl.present) =>
        /\ total = ImageAwareComposite(sub, camp.imageUrl)
        /\ ImageScoreAbove40(camp.imageUrl) =>
              (result.fraudScore >= 45 /\ result.needsManualReview)

-----------------------------------------------------------------------------
(* The aggregator's arithmetic.                                            *)

\* How many of the six sub-scores are strictly above 20.
Above20(s) ==
    (IF s.title > 20 THEN 1 ELSE 0) + (IF s.description > 20 THEN 1 ELSE 0)
    + (IF s.story > 20 THEN 1 ELSE 0) + (IF s.amount > 20 THEN 1 ELSE 0)
    + (IF s.creator > 20 THEN 1 ELSE 0) + (IF s.patterns > 20 THEN 1 ELSE 0)

\* (0.25 t + 0.20 d + 0.20 s + 0.15 a + 0.12 c + 0.08 p + 5) times the
\* multiplier, in 1/Scale units.
WeightedPlusBaseTimes(s, hundredths) ==
    (25 * s.title + 20 * s.description + 20 * s.story + 15 * s.amount
     + 12 * s.creator + 8 * s.patterns + 500) * hundredths

NoFloorApplies(s) ==
    /\ s.title <= 30
    /\ s.description <= 30
    /\ ~(s.story > 25 /\ (s.title > 15 \/ s.description > 15))

\* C14: the composite before the floors is the weighted sum plus 5, times
\* 1.3 with three or more sub-scores above 20, times 1.15 with exactly two,
\* times 1 otherwise; the weights sum to 1 (all sub-scores at 100 weigh 100);
\* and where no floor applies and the ceiling is not reached that value is
\* what calculateFraudScore returns.
C14_CompositeBeforeFloors ==
    pc = "weighed" =>
        /\ Amplified(sub) =
             WeightedPlusBaseTimes(sub, IF Above20(sub) >= 3 THEN 130
                                        ELSE IF Above20(sub) = 2 THEN 115
                                        ELSE 100)
        /\ Amplified([k \in DOMAIN sub |-> 100]) = (100 + 5) * 130 * 100
        /\ (NoFloorApplies(sub) /\ Amplified(sub) <= 100 * Scale)
              => total = Amplified(sub)

C14_Witness ==
    /\ pc = "weighed"
    /\ Above20(sub) = 2
    /\ sub.amount = 25
    /\ sub.creator = 25
    /\ total = (375 + 300 + 500) * 115

\* C15: in every result of the try block, a title or description sub-score
\* above 30 comes with a fraudScore of at least 35, needsManualReview true
\* and autoApprove false; a story sub-score above 25 together with a title
\* or description sub-score above 15 comes with a fraudScore of at least 30.
C15_FloorsHold ==
    ReturnedAnalysis =>
        /\ (sub.title > 30 \/ sub.description > 30) =>
              /\ result.fraudScore >= 35
              /\ result.needsManualReview
              /\ ~result.autoApprove
        /\ (sub.story > 25 /\ (sub.title > 15 \/ sub.description > 15)) =>
              result.fraudScore >= 30

\* The floor of 35 lifted a composite that stood below it.
C15_Witness ==
    /\ ReturnedAnalysis
    /\ sub.title > 30
    /\ Amplified(sub) < 35 * Scale
    /\ result.fraudScore = 35
    /\ result.needsManualReview

\* C16 (as claimed): confidence is 'High' exactly when there are at least 3
\* indicators and the returned fraudScore is at least 30 or at most 15,
\* otherwise 'Medium' with at least 1 indicator, and 'Low' with none.
C16_ConfidenceFollowsReturnedScore ==
    ReturnedAnalysis =>
        result.confidence =
            (IF Len(result.indicators) >= 3
                /\ (result.fraudScore >= 30 \/ result.fraudScore <= 15)
             THEN "High"
             ELSE IF Len(result.indicators) >= 1 THEN "Medium"
             ELSE "Low")

-----------------------------------------------------------------------------
(* The title analyzer.                                                     *)

\* Critical phrases as they may be added to a title, with the separating
\* blank: "act fast", " ACT FAST", " investment opportunity",
\* " Investment Opportunity".
CriticalPhrases == {[len |-> 8, caps |-> 0], [len |-> 9, caps |-> 7],
                    [len |-> 23, caps |-> 0], [len |-> 23, caps |-> 2]}

\* The title with one more critical phrase in it.
AddCritical(title, phrase) ==
    [title EXCEPT !.critical = @ + 1, !.len = @ + phrase.len,
                  !.caps = @ + phrase.caps]

\* C17: a title with one more critical phrase, longer and with another
\* uppercase ratio for it, never scores below the title without it.
C17_CriticalPhraseNeverLowers ==
    pc = "title_scored" =>
        \A phrase \in CriticalPhrases :
            analyzeTitleFraud(AddCritical(camp.title, phrase)) >= sub.title

\* The added phrase costs the title both its capitalisation addition and
\* its too-short addition.
C17_Witness ==
    /\ pc = "title_scored"
    /\ camp.title.len = 9
    /\ camp.title.caps = 3
    /\ camp.title.critical = 0
    /\ sub.title = 12 + 15
    /\ analyzeTitleFraud(AddCritical(camp.title, [len |-> 23, caps |-> 0])) = 40

\* A title with nothing to score but its capitals and its length.
Plain(t) ==
    /\ t.critical = 0 /\ t.highRisk = 0 /\ t.emotional = 0
    /\ t.excessivePunct = 0 /\ t.multiplePunct = 0 /\ t.scam = 0

\* C18: on a title of 10 to 200 characters an uppercase ratio of exactly
\* 0.5 adds 12, exactly 0.3 adds 6 and exactly 0.2 nothing; a ratio above 0.5
\* adds 12 on a title of 10 characters or fewer; lengths 10 and 200 add
\* nothing; and the capitalisation addition is one of 0, 6, 12 and 20.
C18_TitleBoundariesStrict ==
    LET t == camp.title
        midLength == t.len >= 10 /\ t.len <= 200
    IN  pc = "title_scored" =>
          /\ (Plain(t) /\ midLength /\ t.len > 0) =>
                /\ 2 * t.caps = t.len => sub.title = 12
                /\ 10 * t.caps = 3 * t.len => sub.title = 6
                /\ 10 * t.caps = 2 * t.len => sub.title = 0
                /\ sub.title \in {0, 6, 12, 20}
          /\ (Plain(t) /\ 2 * t.caps > t.len /\ t.len = 10) => sub.title = 12
          /\ (Plain(t) /\ 2 * t.caps > t.len /\ t.len < 10) => sub.title = 12 + 15
          /\ (Plain(t) /\ t.caps = 0 /\ t.len \in {10, 200}) => sub.title = 0
          /\ sub.title < 100 =>
                sub.title - analyzeTitleFraud([t EXCEPT !.caps = 0])
                    \in {0, 6, 12, 20}

C18_Witness ==
    /\ pc = "title_scored"
    /\ Plain(camp.title)
    /\ camp.title.len = 20
    /\ camp.title.caps = 6
    /\ sub.title = 6

-----------------------------------------------------------------------------
(* Empty texts.                                                            *)

\* Stories without a detectable sentence: empty, whitespace only,
\* terminators only.
NoSentenceStories == {sEmpty, sBlank, sDots}

\* C19: a story without a detectable sentence scores exactly 50, and a call
\* on empty-string title, description and story goes through its try block:
\* it returns the result computed from its sub-scores, with a risk level
\* other than 'Unknown' and a Story Analysis indicator of score 50.
C19_EmptyTextIsScored ==
    /\ \A story \in NoSentenceStories : analyzeStoryFraud(story) = 50
    /\ (camp.story \in NoSentenceStories /\ pc \notin {"idle", "score_text"}) =>
          /\ sub.story = 50
          /\ pc # "done" => result = NoAnalysis
    /\ (Returned /\ camp.story \in NoSentenceStories) =>
          /\ result.riskLevel \in RiskLevels
          /\ result.fraudScore = Round(Composite(sub))
          /\ \E i \in 1..Len(result.indicators) :
                /\ result.indicators[i].type = "Story Analysis"
                /\ result.indicators[i].score = 50

C19_Witness ==
    /\ Returned
    /\ camp = cEmpty
    /\ failed = {}
    /\ sub.title = 15
    /\ sub.description = 20
    /\ sub.story = 50
    /\ result.fraudScore = 30
    /\ result.riskLevel = "High"

-----------------------------------------------------------------------------
(* The description analyzer.                                               *)

\* C20 (as claimed): a description of 50 words or more with a unique-word
\* ratio below 0.3 scores 15 more than it would with every word different
\* (unless it stands at the ceiling of 100).
C20_DiversityFromFiftyWords ==
    LET d == camp.description
    IN  (/\ pc = "description_scored"
         /\ d.nWords >= 50
         /\ 10 * d.uniqueWords < 3 * d.nWords
         /\ sub.description < 100)
        => sub.description =
              analyzeDescriptionFraud([d EXCEPT !.uniqueWords = d.nWords]) + 15

-----------------------------------------------------------------------------
(* The creator-history analyzer.                                           *)

\* The store holds no campaign of the snapshot's creator created within the
\* last 365 days.
NoHistoryInWindow ==
    \A i \in 1..Len(store) :
        store[i].creator = camp.creator => store[i].createdAt < now - 365

\* The store answers the creator query of calculateFraudScore.
CreatorQueryAnswered ==
    /\ pc = "score_creator"
    /\ pc' = "score_patterns"
    /\ "score_creator" \notin failed'

\* C21: when the store answers the creator query with no campaign of the
\* last 365 days, the creator sub-score is exactly 15: the new-creator value
\* alone, with no rejection, frequency, completion or repeated-amount
\* addition on top of it.
C21_NewCreatorScores15 ==
    [][(CreatorQueryAnswered /\ NoHistoryInWindow) => sub'.creator = 15]_vars

\* u2's two campaigns are 366 days old when the query is served: the store
\* holds campaigns of the creator, and returns none.
C21_Witness ==
    /\ pc = "score_patterns"
    /\ "score_creator" \notin failed
    /\ store = storeOld
    /\ camp.creator = "u2"
    /\ now = Now0 + 1
    /\ sub.creator = 15

\* The history the creator query returns.
History == FindByCreator(store, camp.creator, now)

\* The same history with goal amounts that all differ.
DistinctAmounts(h) == [i \in DOMAIN h |-> [h[i] EXCEPT !.goalAmount = i]]

\* C22 (as claimed): whenever two or more campaigns of the 365-day history
\* share a goal amount, a history of exactly two campaigns included, the
\* creator sub-score is 15 above what the same history with all amounts
\* different scores.
C22_RepeatedAmountAdds15 ==
    (/\ pc = "creator_scored"
     /\ failed = {}
     /\ \E i, j \in 1..Len(History) :
           i # j /\ History[i].goalAmount = History[j].goalAmount)
    => sub.creator =
          Min(CreatorHistoryScore(DistinctAmounts(History), now) + 15, 100)

-----------------------------------------------------------------------------
(* The pattern analyzer.                                                   *)

\* The comparison campaigns the pattern query returns.
Recent == FindRecentInCategory(store, camp.category, camp.creator, now)

\* The amount-clustering addition: more than 3 comparison campaigns with a
\* goal amount within 10% of the snapshot's.
Clustering ==
    IF Cardinality({i \in 1..Len(Recent) :
                      Abs(Recent[i].goalAmount - camp.goalAmount) * 10
                      < camp.goalAmount}) > 3
    THEN 15 ELSE 0

\* Some comparison campaign's description ratio is above 0.6.
SomeDescriptionAbove06 ==
    \E i \in 1..Len(Recent) :
        SimilarityAbove(Words(camp.description, 4),
                        Words(Recent[i].description, 4), 6)

\* C23 (as claimed): the pattern sub-score is one title contribution (0, 15
\* or 25), one description contribution (0, 20 or 30) and the clustering
\* addition, capped at 100; and the description contribution is 30 whenever
\* some comparison campaign's description ratio is above 0.6.
C23_EachSignalCountedOnce ==
    (pc = "patterns_scored" /\ failed = {}) =>
        \E t \in {0, 15, 25}, d \in {0, 20, 30} :
            /\ sub.patterns = Min(t + d + Clustering, 100)
            /\ SomeDescriptionAbove06 => d = 30

-----------------------------------------------------------------------------
(* The result as a whole.                                                  *)

\* The returned indicators of one analyzer.
IndicatorsOf(type) ==
    SelectSeq(result.indicators, LAMBDA i : i.type = type)

\* C24 (as claimed): in a result of the try block the Creator History and
\* Pattern Analysis indicators and the creator risk factor are those of the
\* creator and pattern sub-scores the fraudScore was computed from, whatever
\* the store did between the call's reads: the indicator is there exactly
\* when the sub-score is above its threshold (20, 10), with that sub-score
\* as its score, and the risk factor exactly when the creator sub-score is
\* above 30.
C24_IndicatorsFollowScoredSubScores ==
    ReturnedAnalysis =>
        /\ IndicatorsOf("Creator History") =
              CreatorIndicator(<<>>, sub.creator)
        /\ IndicatorsOf("Pattern Analysis") =
              PatternIndicator(<<>>, sub.patterns)
        /\ Includes(result.riskFactors, "Concerning creator history")
              = (sub.creator > 30)

\* The derived fields of a result agree with each other.
Agrees(r) ==
    /\ ~(r.autoApprove /\ r.needsManualReview)
    /\ r.autoApprove => r.riskLevel = "Very Low"
    /\ r.needsManualReview
          = (r.riskLevel \in {"High", "Very High", "Critical", "Unknown"})
    /\ r.recommendation \in Reject => r.needsManualReview

\* Composite scores at and next to every threshold of the tiers, the
\* recommendations and the flags, and at both ends of the range.
TierBoundaries ==
    {k * Scale + d : k \in {8, 12, 18, 25, 35, 50}, d \in {0 - 1, 0, 1}}
    \cup {0, 100 * Scale}

\* C25: in every result a call returns, from its try block or its catch
\* block, autoApprove and needsManualReview are not both true, autoApprove
\* comes with riskLevel 'Very Low', needsManualReview is true exactly with a
\* riskLevel of High, Very High, Critical or Unknown, and a recommendation
\* starting with 'REJECT' comes with needsManualReview; the same holds of
\* the result built from any composite score at a threshold.
C25_DerivedFieldsAgree ==
    /\ Returned => Agrees(result)
    /\ pc = "factors_creator" =>
          \A raw \in TierBoundaries : Agrees(Analysis(raw, indicators, <<>>))

\* A rejected campaign: 'Very High', to be reviewed, not auto-approved.
C25_Witness ==
    /\ ReturnedAnalysis
    /\ result.recommendation = "REJECT - Very high fraud probability detected"
    /\ result.riskLevel = "Very High"
    /\ result.needsManualReview
    /\ ~result.autoApprove

\* The collection as the store returns it in another order.
Reordered(campaigns, p) == [i \in DOMAIN campaigns |-> campaigns[p[i]]]

\* C26 (as claimed): the pattern sub-score is that of the set of comparison
\* campaigns: had the store returned the same campaigns in any other order,
\* analyzePatterns would have returned the same value.
C26_PatternScoreIgnoresOrder ==
    (pc = "patterns_scored" /\ failed = {}) =>
        \A p \in Permutations(DOMAIN store) :
            analyzePatterns(camp, Reordered(store, p), now, TRUE) = sub.patterns

\* The values one sub-score is raised to: the next integer and every higher
\* value of the grid.
Raised(k) == {v \in {sub[k] + 1} \cup SubScoreValues[k] :
                v > sub[k] /\ v <= 100}

\* C27: raising any one sub-score, the other five unchanged, never lowers
\* what calculateFraudScore returns, and it never returns less than 5.
C27_CompositeMonotone ==
    pc = "weighed" =>
        /\ total >= 5 * Scale
        /\ \A k \in DOMAIN sub : \A v \in Raised(k) :
              Composite([sub EXCEPT ![k] = v]) >= total

\* One more point of title risk brings the floor of 35 into play.
C27_Witness ==
    /\ pc = "weighed"
    /\ sub.title = 30
    /\ total < 35 * Scale
    /\ Composite([sub EXCEPT !.title = 31]) = 35 * Scale

-----------------------------------------------------------------------------
(* The admin routes.                                                       *)

\* The store without the campaign under analysis.
OtherCampaigns ==
    [i \in 1..(Len(store) - 1) |-> IF i < prev.id THEN store[i] ELSE store[i + 1]]

\* The store answers the pattern query of calculateFraudScore.
PatternQueryAnswered ==
    /\ pc = "score_patterns"
    /\ pc' = "indicator_creator"
    /\ "score_patterns" \notin failed'

\* C28 (as claimed): when a stored campaign is analysed, its creator
\* sub-score is that of the creator's other campaigns (15 when there is no
\* other), and its pattern sub-score that of the other campaigns of the
\* store.
C28_AnalysedCampaignIsNoEvidence ==
    [][/\ CreatorQueryAnswered =>
             sub'.creator = analyzeCreatorHistory(camp.creator, OtherCampaigns,
                                                  now, TRUE)
       /\ PatternQueryAnswered =>
             sub'.patterns = analyzePatterns(camp, OtherCampaigns, now, TRUE)]_vars

\* C29 (as claimed): PUT /campaigns/:id/approve sets a campaign to 'active'
\* only if the fraud analysis of the request has a fraudScore below 80 or
\* the request carries forceApprove, and only if that fraudScore is below 50
\* or the request carries an adminNote; and an approval answered with a
\* refusal leaves the store as it was.
C29_ApprovalGate ==
    [][/\ (pc = "handler_update" /\ pc' = "idle" /\ store' # store) =>
             /\ result.fraudScore < 80 \/ prev.forceApprove
             /\ result.fraudScore < 50 \/ prev.adminNote
       /\ (prev.request = "approve" /\ pc' = "idle"
           /\ prev'.response # "approved") => store' = store]_vars

\* C30 (as claimed): the status of a campaign changes to 'active' or to
\* 'rejected' only from 'pending'.
C30_DecisionsOnlyOnPending ==
    [][\A i \in 1..Len(store) :
          (store'[i].status # store[i].status
           /\ store'[i].status \in {"active", "rejected"})
          => store[i].status = "pending"]_vars

=============================================================================
